---- MODULE Spec2Model ----
(***************************************************************************)
(* A model of eks-login (main.go): one run of EKSLoginApp.Run under main.  *)
(*                                                                         *)
(* The program is sequential.  pc is the position of the run in the code;  *)
(* every action is one basic block: the external interaction it starts     *)
(* with (a subprocess, a LookPath, a read of standard input) together with *)
(* the code that follows it up to the next external interaction.  The      *)
(* outcome of an external interaction is chosen by the environment.        *)
(*                                                                         *)
(* A string is a sequence of tokens.  A token is one white-space           *)
(* character, one sign, one decimal digit, or a word of other characters   *)
(* ("dev", "us-west-2").  The empty string is << >>.                       *)
(***************************************************************************)
EXTENDS Integers, Sequences, FiniteSets, TLC

VARIABLES
    path,       \* the executables exec.LookPath resolves for this process
    flags,      \* the values cobra parsed into app.config before Run
    config,     \* app.config
    pc,         \* position of the run
    lines,      \* GetAWSProfiles: the lines not yet looked at
    profiles,   \* GetAWSProfiles / SelectProfile: profiles
    region,     \* GetAWSProfiles: result of the region lookup of a line
    output,     \* GetAWSProfiles, ListEKSClusters: output
    clusters,   \* SelectCluster: clusters
    input,      \* the selection loops: result of reader.ReadString
    prompts,    \* number of "Select ..." prompts printed, per kind
    calls,      \* the subprocesses the steps of Run ran so far, in order
    lookups,    \* number of region lookups GetAWSProfiles ran so far
    err,        \* the error Run returns (<< >>: nil)
    summary,    \* what ShowSummary printed (<< >>: nothing yet)
    exitCode,   \* exit status of the process (-1: still running)
    visited     \* the milestones of Run passed so far

vars == <<path, flags, config, pc, lines, profiles, region, output, clusters, input,
          prompts, calls, lookups, err, summary, exitCode, visited>>

----------------------------------------------------------------------------
(* Bounds of the model *)

\* lines in the output of `aws configure list-profiles`
MaxLines == 3
\* entries of the "clusters" array of `aws eks list-clusters`
MaxClusters == 3
\* invalid lines typed at one selection prompt
MaxInvalid == 2

----------------------------------------------------------------------------
(* Strings *)

WhiteSpace == {" ", "\t", "\n", "\r"}

Digits == <<"0", "1", "2", "3", "4", "5", "6", "7", "8", "9">>

IsDigit(t) == \E i \in 1..Len(Digits) : Digits[i] = t

DigitValue(t) == (CHOOSE i \in 1..Len(Digits) : Digits[i] = t) - 1

RECURSIVE TrimLeft(_)
TrimLeft(s) ==
    IF s # << >> /\ Head(s) \in WhiteSpace THEN TrimLeft(Tail(s)) ELSE s

RECURSIVE TrimRight(_)
TrimRight(s) ==
    IF s # << >> /\ s[Len(s)] \in WhiteSpace
    THEN TrimRight(SubSeq(s, 1, Len(s) - 1))
    ELSE s

\* strings.TrimSpace
TrimSpace(s) == TrimRight(TrimLeft(s))

\* strings.Split(s, sep) for a one-character separator
RECURSIVE Split(_, _)
Split(s, sep) ==
    IF \A i \in 1..Len(s) : s[i] # sep
    THEN <<s>>
    ELSE LET i == CHOOSE j \in 1..Len(s) :
                      s[j] = sep /\ \A k \in 1..(j - 1) : s[k] # sep
         IN  <<SubSeq(s, 1, i - 1)>> \o Split(SubSeq(s, i + 1, Len(s)), sep)

RECURSIVE DecimalValue(_, _)
DecimalValue(s, acc) ==
    IF s = << >> THEN acc
    ELSE DecimalValue(Tail(s), 10 * acc + DigitValue(Head(s)))

\* a conversion that drops the sign
AtoiIgnoringSign(s) ==
    LET signed == s # << >> /\ Head(s) \in {"+", "-"}
        body   == IF signed THEN Tail(s) ELSE s
    IN  IF body = << >> \/ \E i \in 1..Len(body) : ~IsDigit(body[i])
        THEN [err |-> TRUE, val |-> 0]
        ELSE [err |-> FALSE, val |-> DecimalValue(body, 0)]

\* strconv.Atoi: an optional sign, then one or more decimal digits
Atoi(s) ==
    LET signed == s # << >> /\ Head(s) \in {"+", "-"}
        body   == IF signed THEN Tail(s) ELSE s
    IN  IF body = << >> \/ \E i \in 1..Len(body) : ~IsDigit(body[i])
        THEN [err |-> TRUE, val |-> 0]
        ELSE [err |-> FALSE,
              val |-> IF signed /\ Head(s) = "-"
                      THEN 0 - DecimalValue(body, 0)
                      ELSE DecimalValue(body, 0)]

\* Execute: the trimmed standard output, or "" and an error
Execute(r) ==
    IF r.ok THEN [out |-> TrimSpace(r.out), err |-> FALSE]
    ELSE [out |-> << >>, err |-> TRUE]

----------------------------------------------------------------------------
(* The environment: flags, subprocess results, lines of standard input *)

DefaultRegion == <<"us-west-2">>

SeqsUpTo(S, n) == UNION {[1..k -> S] : k \in 0..n}

FlagProfiles == {<< >>, <<"a">>}
FlagRegions  == {DefaultRegion, <<"eu-west-1">>}
FlagClusters == {<< >>, <<"prod">>}

Dependencies == <<"aws", "kubectl">>

\* the lines `aws configure list-profiles` may print
ProfileLines == {<< >>, <<"dev">>, <<" ", "prod">>}

RECURSIVE JoinLines(_)
JoinLines(ls) ==
    IF ls = << >> THEN << >>
    ELSE Head(ls) \o <<"\n">> \o JoinLines(Tail(ls))

ListProfilesResults ==
    {[ok |-> FALSE, out |-> << >>]} \cup
    {[ok |-> TRUE, out |-> JoinLines(ls)] : ls \in SeqsUpTo(ProfileLines, MaxLines)}

RegionResults ==
    {[ok |-> FALSE, out |-> << >>],
     [ok |-> TRUE, out |-> <<"\n">>],
     [ok |-> TRUE, out |-> <<"us-east-1", "\n">>]}

ExitResults == {[ok |-> TRUE, out |-> << >>], [ok |-> FALSE, out |-> << >>]}

\* the JSON documents `aws eks list-clusters --output json` may print; a
\* string literal is a word between two quote tokens
ClusterNames == {<<"prod">>, <<"stg">>}

Quote == "\""

RECURSIVE JSONStrings(_)
JSONStrings(cs) ==
    IF cs = << >> THEN << >>
    ELSE <<Quote>> \o Head(cs) \o <<Quote>>
         \o (IF Len(cs) > 1 THEN <<",">> ELSE << >>) \o JSONStrings(Tail(cs))

\* lists in which a cluster has the empty string for a name
UnnamedClusters == {<<<< >>>>, <<<< >>, <<"prod">>>>}

ClusterJSON(cs) ==
    <<"{", "\n", " ", Quote, "clusters", Quote, ":", " ", "[">>
    \o JSONStrings(cs) \o <<"]", "\n", "}", "\n">>

ClusterDocs ==
    {<< >>, <<"{", "\n">>, <<"{", "}", "\n">>,
     <<"{", Quote, "clusters", Quote, ":", "null", "}", "\n">>,
     <<"{", Quote, "clusters", Quote, ":", Quote, "prod", Quote, "}", "\n">>,
     <<"{", Quote, "clusters", Quote, ":", "[", Quote, "prod", Quote, ",", "]", "}">>}
    \cup {ClusterJSON(cs) : cs \in SeqsUpTo(ClusterNames, MaxClusters)}
    \cup {ClusterJSON(cs) : cs \in UnnamedClusters}

ListClustersResults ==
    {[ok |-> FALSE, out |-> << >>]} \cup {[ok |-> TRUE, out |-> d] : d \in ClusterDocs}

\* encoding/json: the elements of an array of strings, after its "["; acc
\* holds the elements read so far
RECURSIVE StringElements(_, _)
StringElements(t, acc) ==
    IF Len(t) >= 2 /\ t[1] = Quote /\ t[2] = Quote
    THEN IF Len(t) = 2
         THEN [err |-> FALSE, Clusters |-> Append(acc, << >>)]
         ELSE IF Len(t) >= 4 /\ t[3] = ","
         THEN StringElements(SubSeq(t, 4, Len(t)), Append(acc, << >>))
         ELSE [err |-> TRUE, Clusters |-> << >>]
    ELSE IF Len(t) >= 3 /\ t[1] = Quote /\ t[3] = Quote /\ t[2] \notin {Quote, ","}
    THEN IF Len(t) = 3
         THEN [err |-> FALSE, Clusters |-> Append(acc, <<t[2]>>)]
         ELSE IF Len(t) >= 5 /\ t[4] = ","
         THEN StringElements(SubSeq(t, 5, Len(t)), Append(acc, <<t[2]>>))
         ELSE [err |-> TRUE, Clusters |-> << >>]
    ELSE [err |-> TRUE, Clusters |-> << >>]

\* json.Unmarshal([]byte(output), &response): response.Clusters, or an error
Unmarshal(data) ==
    LET t     == SelectSeq(data, LAMBDA x : x \notin WhiteSpace)
        n     == Len(t)
        key   == <<"{", Quote, "clusters", Quote, ":">>
        value == SubSeq(t, 6, n - 1)
        bad   == [err |-> TRUE, Clusters |-> << >>]
        none  == [err |-> FALSE, Clusters |-> << >>]
    IN  IF t = <<"{", "}">> THEN none
        ELSE IF n < 7 \/ SubSeq(t, 1, 5) # key \/ t[n] # "}" THEN bad
        ELSE IF value = <<"null">> \/ value = <<"[", "]">> THEN none
        ELSE IF Len(value) > 2 /\ value[1] = "[" /\ value[Len(value)] = "]"
        THEN StringElements(SubSeq(value, 2, Len(value) - 1), << >>)
        ELSE bad

MaxChoice == (IF MaxLines > MaxClusters THEN MaxLines ELSE MaxClusters) + 1

\* the lines a user may type; a read may also fail (end of input)
StdinLines ==
    {<<Digits[k + 1], "\n">> : k \in 0..MaxChoice} \cup
    {<<"\n">>, <<"x", "\n">>, <<"-", "1", "\n">>, <<"+", "2", "\n">>,
     <<" ", "2", " ", "\r", "\n">>, <<"1", "0", "\n">>}

ReadResults ==
    {[line |-> l, err |-> FALSE] : l \in StdinLines} \cup
    {[line |-> << >>, err |-> TRUE]}

NoInput == [line |-> << >>, err |-> FALSE]

NoRegion == [out |-> << >>, err |-> FALSE]

Call(cmd, args, ok) == [cmd |-> cmd, args |-> args, ok |-> ok]

----------------------------------------------------------------------------
(* Errors *)

Nil == << >>
ErrDependency(dep) == <<"required dependency not found in PATH", dep>>
ErrListProfiles    == <<"failed to list AWS profiles">>
ErrNoProfiles      == <<"no AWS profiles found">>
ErrReadInput       == <<"failed to read input">>
ErrLogin           == <<"SSO login failed">>
ErrListClusters    == <<"failed to list EKS clusters">>
ErrParseClusters   == <<"failed to parse cluster list">>
ErrNoClusters      == <<"no EKS clusters found">>
ErrUpdate          == <<"failed to update kubeconfig">>

----------------------------------------------------------------------------
(* The decisions of the code *)

\* a check that reports the last missing dependency instead of the first
FirstMissingLast(found) ==
    IF \A i \in 1..Len(Dependencies) : Dependencies[i] \in found THEN 0
    ELSE CHOOSE i \in 1..Len(Dependencies) :
             /\ Dependencies[i] \notin found
             /\ \A j \in (i + 1)..Len(Dependencies) : Dependencies[j] \in found

\* CheckDependencies: index of the first dependency LookPath misses (0: none)
FirstMissing(found) ==
    IF \A i \in 1..Len(Dependencies) : Dependencies[i] \in found THEN 0
    ELSE CHOOSE i \in 1..Len(Dependencies) :
             /\ Dependencies[i] \notin found
             /\ \A j \in 1..(i - 1) : Dependencies[j] \in found

\* a loop that makes a profile of every line, blank or not
SkipBlankKeepsAll(ls) == ls

\* GetAWSProfiles: the loop skips the lines that are blank after trimming
RECURSIVE SkipBlank(_)
SkipBlank(ls) ==
    IF ls # << >> /\ TrimSpace(Head(ls)) = << >> THEN SkipBlank(Tail(ls)) ELSE ls

\* a fallback to the region of the command line
RegionOrFlag(out) ==
    IF out = << >> THEN config.Region ELSE out

\* GetAWSProfiles: if region == "" { region = app.config.DefaultRegion }
RegionOrDefault(out) ==
    IF out = << >> THEN config.DefaultRegion ELSE out

\* a range check that is off by one at the upper end
ValidChoiceStrictUpper(choice, n) ==
    ~choice.err /\ choice.val >= 1 /\ choice.val < n

\* the selection loops: !(err != nil || choice < 1 || choice > len(list))
ValidChoice(choice, n) ==
    ~choice.err /\ choice.val >= 1 /\ choice.val <= n

\* an index that is one entry off (wrapping at the end of the list)
ProfileAtOffByOne(ps, choice) == ps[(choice % Len(ps)) + 1]

\* SelectProfile: profiles[choice-1]
ProfileAt(ps, choice) == ps[choice]

\* an index that is one entry off (wrapping at the end of the list)
ClusterAtOffByOne(cs, choice) == cs[(choice % Len(cs)) + 1]

\* SelectCluster: clusters[choice-1]
ClusterAt(cs, choice) == cs[choice]

\* a session check that reports the opposite of the exit status
SessionValidInverted(e) == e.err

\* CheckSSOSession: return err == nil, nil
SessionValid(e) == ~e.err

\* a session check that reports a failed identity call as an error
SessionCheckErrorOnFailure(e) ==
    IF e.err THEN <<"failed to check SSO session">> ELSE Nil

\* CheckSSOSession: the error returned next to the verdict is always nil
SessionCheckError(e) == Nil

\* a login step that does not look at the flag
SkipLoginIgnored == FALSE

\* a login step that is also left out when the run is not interactive
SkipLoginNonInteractive == config.SkipSSO \/ ~config.Interactive

\* LoginSSO: if app.config.SkipSSO { return nil }
SkipLogin == config.SkipSSO

\* a verifier that reports the failure of cluster-info to Run
VerifyErrorFatal(e) == <<"unable to verify connection">>

\* VerifyConnection: the error returned when cluster-info failed
VerifyError(e) == Nil

\* a verifier that reports the failure of current-context to Run
ContextErrorFatal(e) ==
    IF e.err THEN <<"unable to read current context">> ELSE Nil

\* VerifyConnection: if context, err := ...; err == nil { print }: the error
\* of the current-context call goes nowhere
ContextError(e) == Nil

\* cluster and profile handed over in each other's place
UpdateArgsSwapped == <<config.Region, config.Profile, config.Cluster>>

\* UpdateKubeconfig: --region, --name, --profile
UpdateArgs == <<config.Region, config.Cluster, config.Profile>>

\* ShowSummary: the three values printed
SummaryOf ==
    [Profile |-> config.Profile, Region |-> config.Region,
     Cluster |-> config.Cluster]

\* a main that forgets os.Exit(1)
ExitStatusAlwaysZero(e) == 0

\* main: os.Exit(1) on an error, a normal return otherwise
ExitStatus(e) == IF e # Nil THEN 1 ELSE 0

\* Run: where the run goes once the profile is settled
ProfileMark == IF config.Profile # << >> THEN <<"ProfileResolved">> ELSE << >>

\* a Run that checks the session again after the login step
AfterLoginRecheck == "CheckSSOSession"

\* a Run that never resolves the cluster
AfterLoginNoCluster == "UpdateKubeconfig"

\* Run: if app.config.Cluster == "" { SelectCluster } ; UpdateKubeconfig
AfterLogin ==
    IF config.Cluster = << >> THEN "ListEKSClusters" ELSE "UpdateKubeconfig"

ClusterMark == IF config.Cluster # << >> THEN <<"ClusterResolved">> ELSE << >>

\* a read whose failure is taken for an invalid line
ReadErrorIgnored(r) == Nil

\* the selection loops: if err != nil { return "failed to read input" }
ReadError(r) == IF r.err THEN ErrReadInput ELSE Nil

\* the lines the user still types at a prompt that was printed `count` times
ReadResultsAt(n, count) ==
    {r \in ReadResults :
        \/ count <= MaxInvalid
        \/ r.err
        \/ ValidChoice(Atoi(TrimSpace(r.line)), n)}

----------------------------------------------------------------------------
(* The run *)

Init ==
    /\ path \in SUBSET {Dependencies[i] : i \in 1..Len(Dependencies)}
    /\ flags \in [Profile : FlagProfiles, Region : FlagRegions,
                  Cluster : FlagClusters, Interactive : BOOLEAN,
                  SkipSSO : BOOLEAN]
    /\ config = [Profile |-> flags.Profile, Region |-> flags.Region,
                 Cluster |-> flags.Cluster, Interactive |-> flags.Interactive,
                 SkipSSO |-> flags.SkipSSO, DefaultRegion |-> DefaultRegion]
    /\ pc = "CheckDependencies"
    /\ lines = << >>
    /\ profiles = << >>
    /\ region = NoRegion
    /\ output = << >>
    /\ clusters = << >>
    /\ input = NoInput
    /\ prompts = [profile |-> 0, cluster |-> 0]
    /\ calls = << >>
    /\ lookups = 0
    /\ err = Nil
    /\ summary = << >>
    /\ exitCode = -1
    /\ visited = <<"Start">>

CheckDependencies ==
    /\ pc = "CheckDependencies"
    /\ LET m == FirstMissing(path)
       IN  IF m # 0
           THEN /\ err' = ErrDependency(Dependencies[m])
                /\ pc' = "Return"
                /\ UNCHANGED visited
           ELSE /\ pc' = IF config.Profile = << >>
                         THEN "GetAWSProfiles" ELSE "CheckSSOSession"
                /\ visited' = visited \o <<"DepsOK">> \o ProfileMark
                /\ UNCHANGED err
    /\ UNCHANGED <<path, flags, config, lines, profiles, region, output,
                   clusters, input, prompts, calls, lookups, summary,
                   exitCode>>

GetAWSProfiles ==
    /\ pc = "GetAWSProfiles"
    /\ \E r \in ListProfilesResults :
          LET e  == Execute(r)
              ls == SkipBlank(Split(e.out, "\n"))
          IN  /\ calls' = Append(calls, Call("aws configure list-profiles", << >>, r.ok))
              /\ IF e.err
                 THEN /\ err' = ErrListProfiles
                      /\ pc' = "Return"
                      /\ UNCHANGED <<lines, output>>
                 ELSE /\ output' = e.out
                      /\ lines' = ls
                      /\ pc' = IF ls = << >> THEN "SelectProfile" ELSE "GetRegion"
                      /\ UNCHANGED err
    /\ UNCHANGED <<path, flags, config, profiles, region, clusters, input,
                   prompts, lookups, summary, exitCode, visited>>

GetRegion ==
    /\ pc = "GetRegion"
    /\ \E r \in RegionResults : region' = Execute(r)
    /\ lookups' = lookups + 1
    /\ pc' = "AppendProfile"
    /\ UNCHANGED <<path, flags, output, config, lines, profiles, clusters,
                   input, prompts, calls, err, summary, exitCode, visited>>

AppendProfile ==
    /\ pc = "AppendProfile"
    /\ LET line == TrimSpace(Head(lines))
           rest == SkipBlank(Tail(lines))
       IN  /\ profiles' = Append(profiles,
                                 [Name |-> line, Region |-> RegionOrDefault(region.out)])
           /\ lines' = rest
           /\ pc' = IF rest = << >> THEN "SelectProfile" ELSE "GetRegion"
    /\ region' = NoRegion
    /\ UNCHANGED <<path, flags, output, config, clusters, input, prompts,
                   calls, lookups, err, summary, exitCode, visited>>

SelectProfile ==
    /\ pc = "SelectProfile"
    /\ CASE Len(profiles) = 0 ->
              /\ err' = ErrNoProfiles
              /\ pc' = "Return"
              /\ UNCHANGED <<config, profiles, prompts, visited>>
         [] Len(profiles) = 1 ->
              /\ config' = [config EXCEPT !.Profile = profiles[1].Name,
                                          !.Region = profiles[1].Region]
              /\ pc' = "CheckSSOSession"
              /\ profiles' = << >>
              /\ visited' = visited \o <<"ProfileResolved">>
              /\ UNCHANGED <<err, prompts>>
         [] OTHER ->
              /\ prompts' = [prompts EXCEPT !.profile = @ + 1]
              /\ pc' = "ReadProfile"
              /\ UNCHANGED <<config, profiles, err, visited>>
    /\ output' = << >>
    /\ UNCHANGED <<path, flags, lines, region, clusters, input, calls,
                   lookups, summary, exitCode>>

ReadProfile ==
    /\ pc = "ReadProfile"
    /\ \E r \in ReadResultsAt(Len(profiles), prompts.profile) :
          IF ReadError(r) # Nil
          THEN /\ err' = ReadError(r)
               /\ pc' = "Return"
               /\ profiles' = << >>
               /\ UNCHANGED input
          ELSE /\ input' = r
               /\ pc' = "ChooseProfile"
               /\ UNCHANGED <<err, profiles>>
    /\ UNCHANGED <<path, flags, config, lines, region, output, clusters,
                   prompts, calls, lookups, summary, exitCode, visited>>

ChooseProfile ==
    /\ pc = "ChooseProfile"
    /\ LET choice == Atoi(TrimSpace(input.line))
       IN  IF ~ValidChoice(choice, Len(profiles))
           THEN /\ prompts' = [prompts EXCEPT !.profile = @ + 1]
                /\ pc' = "ReadProfile"
                /\ UNCHANGED <<config, profiles, visited>>
           ELSE /\ config' = [config EXCEPT
                                 !.Profile = ProfileAt(profiles, choice.val).Name,
                                 !.Region = ProfileAt(profiles, choice.val).Region]
                /\ pc' = "CheckSSOSession"
                /\ profiles' = << >>
                /\ visited' = visited \o <<"ProfileResolved">>
                /\ UNCHANGED prompts
    /\ input' = NoInput
    /\ UNCHANGED <<path, flags, lines, region, output, clusters, calls,
                   lookups, err, summary, exitCode>>

CheckSSOSession ==
    /\ pc = "CheckSSOSession"
    /\ \E r \in ExitResults :
          LET e == Execute(r)
          IN  /\ calls' = Append(calls, Call("aws sts get-caller-identity",
                                             <<config.Profile>>, r.ok))
              /\ IF SessionCheckError(e) # Nil
                 THEN /\ err' = SessionCheckError(e)
                      /\ pc' = "Return"
                      /\ UNCHANGED visited
                 ELSE IF SessionValid(e)
                 THEN /\ pc' = AfterLogin
                      /\ visited' = visited \o <<"SessionChecked", "SessionAlreadyValid">>
                                            \o ClusterMark
                      /\ UNCHANGED err
                 ELSE /\ pc' = "LoginSSO"
                      /\ visited' = visited \o <<"SessionChecked">>
                      /\ UNCHANGED err
    /\ UNCHANGED <<path, flags, config, lines, profiles, region, output,
                   clusters, input, prompts, lookups, summary, exitCode>>

LoginSSO ==
    /\ pc = "LoginSSO"
    /\ IF SkipLogin
       THEN /\ pc' = AfterLogin
            /\ visited' = visited \o ClusterMark
            /\ UNCHANGED <<calls, err>>
       ELSE \E r \in ExitResults :
               /\ calls' = Append(calls, Call("aws sso login", <<config.Profile>>, r.ok))
               /\ IF r.ok
                  THEN /\ pc' = AfterLogin
                       /\ visited' = visited \o <<"LoggedIn">> \o ClusterMark
                       /\ UNCHANGED err
                  ELSE /\ err' = ErrLogin
                       /\ pc' = "Return"
                       /\ UNCHANGED visited
    /\ UNCHANGED <<path, flags, config, lines, profiles, region, output,
                   clusters, input, prompts, lookups, summary, exitCode>>

ListEKSClusters ==
    /\ pc = "ListEKSClusters"
    /\ \E r \in ListClustersResults :
          LET e == Execute(r)
          IN  /\ calls' = Append(calls, Call("aws eks list-clusters",
                                             <<config.Profile, config.Region>>, r.ok))
              /\ IF e.err
                 THEN /\ err' = ErrListClusters
                      /\ pc' = "Return"
                      /\ UNCHANGED output
                 ELSE /\ output' = e.out
                      /\ pc' = "ParseClusters"
                      /\ UNCHANGED err
    /\ UNCHANGED <<path, flags, config, lines, profiles, region, clusters,
                   input, prompts, lookups, summary, exitCode, visited>>

ParseClusters ==
    /\ pc = "ParseClusters"
    /\ LET response == Unmarshal(output)
       IN  IF response.err
           THEN /\ err' = ErrParseClusters
                /\ pc' = "Return"
                /\ UNCHANGED clusters
           ELSE /\ clusters' = response.Clusters
                /\ pc' = "SelectCluster"
                /\ UNCHANGED err
    /\ output' = << >>
    /\ UNCHANGED <<path, flags, config, lines, profiles, region, input,
                   prompts, calls, lookups, summary, exitCode, visited>>

SelectCluster ==
    /\ pc = "SelectCluster"
    /\ CASE Len(clusters) = 0 ->
              /\ err' = ErrNoClusters
              /\ pc' = "Return"
              /\ UNCHANGED <<config, clusters, prompts, visited>>
         [] Len(clusters) = 1 ->
              /\ config' = [config EXCEPT !.Cluster = clusters[1]]
              /\ pc' = "UpdateKubeconfig"
              /\ clusters' = << >>
              /\ visited' = visited \o <<"ClusterResolved">>
              /\ UNCHANGED <<err, prompts>>
         [] OTHER ->
              /\ prompts' = [prompts EXCEPT !.cluster = @ + 1]
              /\ pc' = "ReadCluster"
              /\ UNCHANGED <<config, clusters, err, visited>>
    /\ UNCHANGED <<path, flags, lines, profiles, region, output, input,
                   calls, lookups, summary, exitCode>>

ReadCluster ==
    /\ pc = "ReadCluster"
    /\ \E r \in ReadResultsAt(Len(clusters), prompts.cluster) :
          IF ReadError(r) # Nil
          THEN /\ err' = ReadError(r)
               /\ pc' = "Return"
               /\ clusters' = << >>
               /\ UNCHANGED input
          ELSE /\ input' = r
               /\ pc' = "ChooseCluster"
               /\ UNCHANGED <<err, clusters>>
    /\ UNCHANGED <<path, flags, config, lines, profiles, region, output,
                   prompts, calls, lookups, summary, exitCode, visited>>

ChooseCluster ==
    /\ pc = "ChooseCluster"
    /\ LET choice == Atoi(TrimSpace(input.line))
       IN  IF ~ValidChoice(choice, Len(clusters))
           THEN /\ prompts' = [prompts EXCEPT !.cluster = @ + 1]
                /\ pc' = "ReadCluster"
                /\ UNCHANGED <<config, clusters, visited>>
           ELSE /\ config' = [config EXCEPT !.Cluster = ClusterAt(clusters, choice.val)]
                /\ pc' = "UpdateKubeconfig"
                /\ clusters' = << >>
                /\ visited' = visited \o <<"ClusterResolved">>
                /\ UNCHANGED prompts
    /\ input' = NoInput
    /\ UNCHANGED <<path, flags, lines, profiles, region, output, calls,
                   lookups, err, summary, exitCode>>

UpdateKubeconfig ==
    /\ pc = "UpdateKubeconfig"
    /\ \E r \in ExitResults :
          /\ calls' = Append(calls, Call("aws eks update-kubeconfig", UpdateArgs, r.ok))
          /\ IF r.ok
             THEN /\ pc' = "VerifyConnection"
                  /\ visited' = visited \o <<"ConfigUpdated">>
                  /\ UNCHANGED err
             ELSE /\ err' = ErrUpdate
                  /\ pc' = "Return"
                  /\ UNCHANGED visited
    /\ UNCHANGED <<path, flags, config, lines, profiles, region, output,
                   clusters, input, prompts, lookups, summary, exitCode>>

VerifyConnection ==
    /\ pc = "VerifyConnection"
    /\ \E r \in ExitResults :
          LET e == Execute(r)
          IN  /\ calls' = Append(calls, Call("kubectl cluster-info", << >>, r.ok))
              /\ IF e.err
                 THEN IF VerifyError(e) # Nil
                      THEN /\ err' = VerifyError(e)
                           /\ pc' = "Return"
                           /\ UNCHANGED visited
                      ELSE /\ pc' = "ShowSummary"
                           /\ visited' = visited \o <<"VerifyFailedNonFatal">>
                           /\ UNCHANGED err
                 ELSE /\ pc' = "CurrentContext"
                      /\ visited' = visited \o <<"Verified">>
                      /\ UNCHANGED err
    /\ UNCHANGED <<path, flags, config, lines, profiles, region, output,
                   clusters, input, prompts, lookups, summary, exitCode>>

CurrentContext ==
    /\ pc = "CurrentContext"
    /\ \E r \in ExitResults :
          LET e == Execute(r)
          IN  /\ calls' = Append(calls, Call("kubectl config current-context",
                                             << >>, r.ok))
              /\ IF ContextError(e) # Nil
                 THEN /\ err' = ContextError(e)
                      /\ pc' = "Return"
                 ELSE /\ pc' = "ShowSummary"
                      /\ UNCHANGED err
    /\ UNCHANGED <<path, flags, config, lines, profiles, region, output,
                   clusters, input, prompts, lookups, summary, exitCode,
                   visited>>

ShowSummary ==
    /\ pc = "ShowSummary"
    /\ summary' = <<SummaryOf>>
    /\ visited' = visited \o <<"Summarized">>
    /\ pc' = "Return"
    /\ UNCHANGED <<path, flags, config, lines, profiles, region, output,
                   clusters, input, prompts, calls, lookups, err, exitCode>>

Main ==
    /\ pc = "Return"
    /\ exitCode' = ExitStatus(err)
    /\ pc' = "Exited"
    /\ UNCHANGED <<path, flags, config, lines, profiles, region, output,
                   clusters, input, prompts, calls, lookups, err, summary,
                   visited>>

Next ==
    \/ CheckDependencies
    \/ GetAWSProfiles
    \/ GetRegion
    \/ AppendProfile
    \/ SelectProfile
    \/ ReadProfile
    \/ ChooseProfile
    \/ CheckSSOSession
    \/ LoginSSO
    \/ ListEKSClusters
    \/ ParseClusters
    \/ SelectCluster
    \/ ReadCluster
    \/ ChooseCluster
    \/ UpdateKubeconfig
    \/ VerifyConnection
    \/ CurrentContext
    \/ ShowSummary
    \/ Main

Spec == Init /\ [][Next]_vars

\* The steps after the last subprocess are plain code of one sequential
\* process: once reached they run.
LiveSpec == Spec /\ WF_vars(ShowSummary) /\ WF_vars(Main)

----------------------------------------------------------------------------
(* Properties *)

Ran(cmd)       == \E i \in 1..Len(calls) : calls[i].cmd = cmd
Succeeded(cmd) == \E i \in 1..Len(calls) : calls[i].cmd = cmd /\ calls[i].ok
Failed(cmd)    == \E i \in 1..Len(calls) : calls[i].cmd = cmd /\ ~calls[i].ok

\* C1: once `aws sts get-caller-identity` has exited successfully, the run
\* is never at the login step and no `aws sso login` is ever spawned.
C1_ValidSessionNeverLogsIn ==
    Succeeded("aws sts get-caller-identity")
        => ~Ran("aws sso login") /\ pc # "LoginSSO"

C1_Witness ==
    /\ Succeeded("aws sts get-caller-identity")
    /\ ~flags.SkipSSO
    /\ pc = "Exited"
    /\ exitCode = 0

\* C2: with --skip-sso set no `aws sso login` is ever spawned, whatever the
\* session check said; after a failed session check the login step returns
\* without an error and the run goes on to cluster resolution (the cluster
\* listing, or the config update when the cluster came by flag).
C2_SkipFlagNeverLogsIn ==
    /\ [](flags.SkipSSO => ~Ran("aws sso login"))
    /\ [][flags.SkipSSO /\ pc = "LoginSSO"
            => /\ err' = Nil
               /\ calls' = calls
               /\ pc' = IF config.Cluster = << >>
                        THEN "ListEKSClusters" ELSE "UpdateKubeconfig"]_vars

C2_Witness ==
    /\ flags.SkipSSO
    /\ Failed("aws sts get-caller-identity")
    /\ Ran("aws eks list-clusters")
    /\ Ran("aws eks update-kubeconfig")

\* C3: VerifyConnection never returns an error; when `kubectl cluster-info`
\* failed (which is only run after a successful config update) the run
\* goes on to the summary, prints it and exits with status 0.
C3_VerifyFailureIsNotFatal ==
    /\ [](Ran("kubectl cluster-info")
            => err = Nil /\ Succeeded("aws eks update-kubeconfig"))
    /\ [](Failed("kubectl cluster-info")
            => /\ pc \in {"ShowSummary", "Return", "Exited"}
               /\ ~Ran("kubectl config current-context")
               /\ pc # "ShowSummary" => summary # << >>
               /\ pc = "Exited" => exitCode = 0)
    /\ (Failed("kubectl cluster-info")
            ~> (pc = "Exited" /\ exitCode = 0 /\ summary # << >>))

C3_Witness ==
    /\ Failed("kubectl cluster-info")
    /\ pc = "Exited"
    /\ exitCode = 0
    /\ summary # << >>

(* What a typed line says, read off the line itself: the lines that type *)
(* the number k.                                                          *)
LinesFor(k) ==
    (IF k \in 0..9 THEN {<<Digits[k + 1], "\n">>} ELSE {})
    \cup (IF k = 2 THEN {<<"+", "2", "\n">>, <<" ", "2", " ", "\r", "\n">>} ELSE {})
    \cup (IF k = 10 THEN {<<"1", "0", "\n">>} ELSE {})
    \cup (IF k = -1 THEN {<<"-", "1", "\n">>} ELSE {})

\* a line that types a number in 1..n
ValidFor(line, n) == \E k \in 1..n : line \in LinesFor(k)

\* a line that is not numeric, or types zero, a negative number or more than n
InvalidFor(line, n) == line \in StdinLines /\ ~ValidFor(line, n)

\* C4: with N profiles discovered: N = 0 ends the run with the error "no AWS
\* profiles found", without a prompt, and the process exits with status 1;
\* N = 1 sets profile and region to those of the only profile, without a
\* prompt; N > 1 issues a prompt, and a line typing k in 1..N sets profile
\* and region to those of the k-th profile (for [dev, prod] with regions
\* [us-west-2, us-east-1] the line "1" gives dev / us-west-2).
C4_ProfileResolution ==
    /\ [][pc = "SelectProfile" /\ Len(profiles) = 0
            => /\ err' = ErrNoProfiles
               /\ pc' = "Return"
               /\ UNCHANGED <<config, prompts, calls>>]_vars
    /\ [](err = ErrNoProfiles
            => /\ prompts.profile = 0
               /\ pc \in {"Return", "Exited"}
               /\ ~Ran("aws sts get-caller-identity")
               /\ pc = "Exited" => exitCode = 1)
    /\ [][pc = "SelectProfile" /\ Len(profiles) = 1
            => /\ config'.Profile = profiles[1].Name
               /\ config'.Region = profiles[1].Region
               /\ prompts'.profile = 0
               /\ pc' = "CheckSSOSession"
               /\ err' = Nil]_vars
    /\ [][pc = "SelectProfile" /\ Len(profiles) > 1
            => /\ prompts'.profile = 1
               /\ pc' = "ReadProfile"
               /\ UNCHANGED <<config, err>>]_vars
    /\ [][pc = "ChooseProfile"
            => \A k \in 1..Len(profiles) :
                  input.line \in LinesFor(k)
                      => /\ config'.Profile = profiles[k].Name
                         /\ config'.Region = profiles[k].Region
                         /\ pc' = "CheckSSOSession"
                         /\ err' = Nil]_vars
    /\ [][(/\ pc = "ChooseProfile"
           /\ profiles = <<[Name |-> <<"dev">>, Region |-> <<"us-west-2">>],
                           [Name |-> <<"prod">>, Region |-> <<"us-east-1">>]>>
           /\ input.line = <<"1", "\n">>)
            => config'.Profile = <<"dev">> /\ config'.Region = <<"us-west-2">>]_vars

\* two profiles were listed, a prompt was issued once, and the run resolved
\* dev / us-west-2 although --region said eu-west-1
C4_Witness ==
    /\ pc = "CheckSSOSession"
    /\ lookups = 2
    /\ prompts.profile = 1
    /\ flags.Region = <<"eu-west-1">>
    /\ config.Profile = <<"dev">>
    /\ config.Region = <<"us-west-2">>

\* C5: the cluster list is the "clusters" array of the JSON output, in its
\* order.  With N clusters listed: N = 0 ends the run with the error "no EKS
\* clusters found", without a prompt, and the process exits with status 1;
\* N = 1 sets the cluster to the only name, without a prompt; N > 1 issues a
\* prompt, and a line typing k in 1..N sets the cluster to the k-th name.
C5_ClusterResolution ==
    /\ [][pc = "ParseClusters"
            => \A cs \in SeqsUpTo(ClusterNames, MaxClusters) :
                  output = TrimSpace(ClusterJSON(cs))
                      => clusters' = cs /\ pc' = "SelectCluster"]_vars
    /\ [][pc = "SelectCluster" /\ Len(clusters) = 0
            => /\ err' = ErrNoClusters
               /\ pc' = "Return"
               /\ UNCHANGED <<config, prompts, calls>>]_vars
    /\ [](err = ErrNoClusters
            => /\ prompts.cluster = 0
               /\ pc \in {"Return", "Exited"}
               /\ ~Ran("aws eks update-kubeconfig")
               /\ pc = "Exited" => exitCode = 1)
    /\ [][pc = "SelectCluster" /\ Len(clusters) = 1
            => /\ config' = [config EXCEPT !.Cluster = clusters[1]]
               /\ prompts'.cluster = 0
               /\ pc' = "UpdateKubeconfig"
               /\ err' = Nil]_vars
    /\ [][pc = "SelectCluster" /\ Len(clusters) > 1
            => /\ prompts'.cluster = 1
               /\ pc' = "ReadCluster"
               /\ UNCHANGED <<config, err>>]_vars
    /\ [][pc = "ChooseCluster"
            => \A k \in 1..Len(clusters) :
                  input.line \in LinesFor(k)
                      => /\ config' = [config EXCEPT !.Cluster = clusters[k]]
                         /\ pc' = "UpdateKubeconfig"
                         /\ err' = Nil]_vars

\* a cluster was chosen at a prompt and handed to the config update
C5_Witness ==
    /\ flags.Cluster = << >>
    /\ prompts.cluster = 1
    /\ config.Cluster = <<"stg">>
    /\ Succeeded("aws eks update-kubeconfig")

\* C6: at either prompt a line that is not numeric, or types zero, a
\* negative number or a number above N changes nothing but the prompt
\* count: profile, region, cluster, the list chosen from, the subprocesses
\* run and the error stay as they were (no error), and the same prompt is
\* printed again and waits for a line.
C6_InvalidInputChangesNothing ==
    /\ [][pc = "ChooseProfile" /\ InvalidFor(input.line, Len(profiles))
            => /\ pc' = "ReadProfile"
               /\ prompts' = [prompts EXCEPT !.profile = @ + 1]
               /\ err' = Nil
               /\ UNCHANGED <<config, profiles, calls, lookups, err, summary,
                              exitCode, visited>>]_vars
    /\ [][pc = "ChooseCluster" /\ InvalidFor(input.line, Len(clusters))
            => /\ pc' = "ReadCluster"
               /\ prompts' = [prompts EXCEPT !.cluster = @ + 1]
               /\ err' = Nil
               /\ UNCHANGED <<config, clusters, calls, lookups, err, summary,
                              exitCode, visited>>]_vars

\* both prompts were printed again after an invalid line
C6_Witness ==
    /\ pc = "ReadCluster"
    /\ prompts.profile = 2
    /\ prompts.cluster = 2
    /\ err = Nil

\* C7: whatever the number of invalid lines typed before, a selection loop
\* ends with a selection exactly when the line read types a number in 1..N,
\* and then with that entry selected; otherwise it prompts again.  (A failed
\* read ends the loop with an error and without a selection.)
C7_LoopEndsExactlyOnValidInput ==
    /\ [][pc = "ChooseProfile"
            => /\ pc' = "CheckSSOSession" <=> ValidFor(input.line, Len(profiles))
               /\ pc' = "ReadProfile" <=> ~ValidFor(input.line, Len(profiles))
               /\ \A k \in 1..Len(profiles) :
                     input.line \in LinesFor(k)
                         => config'.Profile = profiles[k].Name]_vars
    /\ [][pc = "ChooseCluster"
            => /\ pc' = "UpdateKubeconfig" <=> ValidFor(input.line, Len(clusters))
               /\ pc' = "ReadCluster" <=> ~ValidFor(input.line, Len(clusters))
               /\ \A k \in 1..Len(clusters) :
                     input.line \in LinesFor(k)
                         => config'.Cluster = clusters[k]]_vars
    /\ [][(pc \in {"ReadProfile", "ReadCluster"}) => config' = config]_vars
    /\ [][(pc \in {"ReadProfile", "ReadCluster"})
            => \/ pc' \in {"ChooseProfile", "ChooseCluster"} /\ err' = Nil
               \/ pc' = "Return" /\ err' = ErrReadInput]_vars

\* a selection was made at the third printing of the cluster prompt
C7_Witness ==
    /\ pc = "UpdateKubeconfig"
    /\ prompts.cluster = 3
    /\ config.Cluster # << >>
    /\ err = Nil

\* C8: with --profile a --cluster prod --skip-sso and the default region the
\* run lists no profiles and no clusters, looks up no region, prints no
\* prompt and spawns no login; every config update is called with region
\* us-west-2, cluster prod, profile a; the summary printed holds exactly
\* these three values; and a run that exits with status 0 has done both.
C8_AllGivenByFlags ==
    (/\ flags.Profile = <<"a">>
     /\ flags.Cluster = <<"prod">>
     /\ flags.Region = <<"us-west-2">>
     /\ flags.SkipSSO)
        => /\ lookups = 0
           /\ prompts = [profile |-> 0, cluster |-> 0]
           /\ input = NoInput
           /\ \A i \in 1..Len(calls) :
                 /\ calls[i].cmd \notin {"aws configure list-profiles",
                                         "aws eks list-clusters", "aws sso login"}
                 /\ calls[i].cmd = "aws eks update-kubeconfig"
                       => calls[i].args = <<<<"us-west-2">>, <<"prod">>, <<"a">>>>
           /\ summary # << >>
                 => summary = <<[Profile |-> <<"a">>, Region |-> <<"us-west-2">>,
                                 Cluster |-> <<"prod">>]>>
           /\ (pc = "Exited" /\ exitCode = 0)
                 => summary # << >> /\ Succeeded("aws eks update-kubeconfig")

C8_Witness ==
    /\ flags.Profile = <<"a">>
    /\ flags.Cluster = <<"prod">>
    /\ flags.Region = <<"us-west-2">>
    /\ flags.SkipSSO
    /\ Failed("aws sts get-caller-identity")
    /\ pc = "Exited"
    /\ exitCode = 0
    /\ summary # << >>

\* the place of a milestone in the chain of the run
Rank(m) ==
    CASE m = "Start" -> 0
      [] m = "DepsOK" -> 1
      [] m = "ProfileResolved" -> 2
      [] m = "SessionChecked" -> 3
      [] m \in {"LoggedIn", "SessionAlreadyValid"} -> 4
      [] m = "ClusterResolved" -> 5
      [] m = "ConfigUpdated" -> 6
      [] m \in {"Verified", "VerifyFailedNonFatal"} -> 7
      [] m = "Summarized" -> 8

\* the step of the chain a subprocess belongs to
StepRank(cmd) ==
    CASE cmd = "aws configure list-profiles" -> 2
      [] cmd = "aws sts get-caller-identity" -> 3
      [] cmd = "aws sso login" -> 4
      [] cmd = "aws eks list-clusters" -> 5
      [] cmd = "aws eks update-kubeconfig" -> 6
      [] cmd = "kubectl cluster-info" -> 7
      [] cmd = "kubectl config current-context" -> 8

Passed(m) == \E i \in 1..Len(visited) : visited[i] = m

\* no step runs twice or out of order, none runs before its predecessor
\* completed, the run exits once, and with status 0 only from Summarized
StepsInOrder ==
    /\ \A i, j \in 1..Len(calls) :
          i < j => StepRank(calls[i].cmd) < StepRank(calls[j].cmd)
    /\ (Ran("aws configure list-profiles") \/ lookups > 0) => Passed("DepsOK")
    /\ Ran("aws sts get-caller-identity") => Passed("ProfileResolved")
    /\ Ran("aws sso login") => Passed("SessionChecked")
    /\ Ran("aws eks list-clusters") => Passed("SessionChecked")
    /\ Ran("aws eks update-kubeconfig") => Passed("ClusterResolved")
    /\ Ran("kubectl cluster-info") => Passed("ConfigUpdated")
    /\ summary # << >> => Passed("Verified") \/ Passed("VerifyFailedNonFatal")
    /\ (exitCode # -1) <=> (pc = "Exited")
    /\ exitCode = 0 => visited[Len(visited)] = "Summarized"
    /\ exitCode \in {-1, 0, 1}

\* C9 as stated: the milestones passed are a prefix of Start, DepsOK,
\* ProfileResolved, SessionChecked, (LoggedIn or SessionAlreadyValid),
\* ClusterResolved, ConfigUpdated, (Verified or VerifyFailedNonFatal),
\* Summarized; steps run once and in order; exit 0 only from Summarized.
C9_Original ==
    /\ \A i \in 1..Len(visited) : Rank(visited[i]) = i - 1
    /\ StepsInOrder

\* C9, amended: the milestones passed start with Start and follow the chain
\* one link at a time, except that a run with --skip-sso whose session check
\* failed goes from SessionChecked to ClusterResolved, passing neither
\* LoggedIn nor SessionAlreadyValid; steps run once and in order; exit 0
\* only from Summarized.
C9_LinearChain ==
    /\ visited[1] = "Start"
    /\ \A i \in 2..Len(visited) :
          \/ Rank(visited[i]) = Rank(visited[i - 1]) + 1
          \/ /\ visited[i - 1] = "SessionChecked"
             /\ visited[i] = "ClusterResolved"
             /\ flags.SkipSSO
             /\ Failed("aws sts get-caller-identity")
             /\ ~Ran("aws sso login")
    /\ StepsInOrder

\* a run with --skip-sso and an invalid session that reached exit 0
C9_Witness ==
    /\ flags.SkipSSO
    /\ Failed("aws sts get-caller-identity")
    /\ ~Passed("LoggedIn") /\ ~Passed("SessionAlreadyValid")
    /\ Passed("Summarized")
    /\ pc = "Exited"
    /\ exitCode = 0

\* the subprocesses whose failure is fatal
FatalCmds ==
    {"aws configure list-profiles", "aws sso login", "aws eks list-clusters",
     "aws eks update-kubeconfig"}

\* outputs of the cluster listing that do not parse
UnparsableOutputs ==
    {<< >>, <<"{">>,
     <<"{", Quote, "clusters", Quote, ":", Quote, "prod", Quote, "}">>,
     <<"{", Quote, "clusters", Quote, ":", "[", Quote, "prod", Quote, ",", "]", "}">>}

\* C10: a failed profile listing, login, cluster listing or config update
\* is the last subprocess of the run and leaves an error; so do zero
\* profiles, zero clusters and an unparsable cluster list.  Once there is an
\* error nothing more is run, prompted, selected or printed, no summary was
\* printed, and the process ends with exit status 1.
C10_FatalFailureAborts ==
    /\ [](\A i \in 1..Len(calls) :
              (calls[i].cmd \in FatalCmds /\ ~calls[i].ok)
                  => i = Len(calls) /\ err # Nil)
    /\ [](Failed("aws sso login") => ~Ran("aws eks update-kubeconfig"))
    /\ [](Failed("aws eks update-kubeconfig") => summary = << >>)
    /\ [](err # Nil
            => /\ pc \in {"Return", "Exited"}
               /\ summary = << >>
               /\ pc = "Exited" => exitCode = 1)
    /\ [](pc = "Exited" /\ exitCode # 0 => err # Nil)
    /\ [][err # Nil
            => UNCHANGED <<config, calls, lookups, prompts, input, summary,
                           err, visited>>]_vars
    /\ [][pc = "SelectProfile" /\ Len(profiles) = 0 => err' # Nil]_vars
    /\ [][pc = "SelectCluster" /\ Len(clusters) = 0 => err' # Nil]_vars
    /\ [][pc = "ParseClusters" /\ output \in UnparsableOutputs
            => err' = ErrParseClusters]_vars
    /\ (err # Nil ~> (pc = "Exited" /\ exitCode = 1))

\* a failed login, followed by nothing but the exit
C10_Witness ==
    /\ Failed("aws sso login")
    /\ err = ErrLogin
    /\ pc = "Exited"
    /\ exitCode = 1

AllDependencies == {"aws", "kubectl"}

\* C11: when aws or kubectl is not resolvable, the dependency check leaves
\* the error that names the first missing one, aws before kubectl; no
\* subprocess is ever run, no region looked up, nothing prompted or printed,
\* the configuration stays as the flags gave it, and the process ends with
\* exit status 1.
C11_MissingDependencyAborts ==
    /\ [][(pc = "CheckDependencies" /\ "aws" \notin path)
            => (err' = ErrDependency("aws") /\ pc' = "Return")]_vars
    /\ [][(pc = "CheckDependencies" /\ "aws" \in path /\ "kubectl" \notin path)
            => (err' = ErrDependency("kubectl") /\ pc' = "Return")]_vars
    /\ [](path # AllDependencies
            => /\ calls = << >>
               /\ lookups = 0
               /\ prompts = [profile |-> 0, cluster |-> 0]
               /\ summary = << >>
               /\ visited = <<"Start">>
               /\ config.Profile = flags.Profile
               /\ config.Cluster = flags.Cluster
               /\ pc \in {"CheckDependencies", "Return", "Exited"}
               /\ (pc = "Exited" => exitCode = 1))
    /\ [](path = AllDependencies => \A d \in AllDependencies : err # ErrDependency(d))
    /\ ((path # AllDependencies /\ pc = "Return")
            ~> (pc = "Exited" /\ exitCode = 1 /\ calls = << >>))

\* both tools missing: the error names aws, and the run ended without a call
C11_Witness ==
    /\ path = {}
    /\ err = ErrDependency("aws")
    /\ pc = "Exited"
    /\ exitCode = 1
    /\ calls = << >>

\* a --region other than the default can only have come from the command line
RegionGiven == flags.Region # DefaultRegion

\* C12: a profile, a region or a cluster given on the command line is the
\* one the cluster listing and the config update are called with and the one
\* the summary prints, whatever the resolver steps did in between.
C12_FlagValuesAreUsed ==
    /\ flags.Profile # << >> => config.Profile = flags.Profile
    /\ flags.Cluster # << >> => config.Cluster = flags.Cluster
    /\ \A i \in 1..Len(calls) :
          /\ calls[i].cmd = "aws eks list-clusters"
                => /\ flags.Profile # << >> => calls[i].args[1] = flags.Profile
                   /\ RegionGiven => calls[i].args[2] = flags.Region
          /\ calls[i].cmd = "aws eks update-kubeconfig"
                => /\ RegionGiven => calls[i].args[1] = flags.Region
                   /\ flags.Cluster # << >> => calls[i].args[2] = flags.Cluster
                   /\ flags.Profile # << >> => calls[i].args[3] = flags.Profile
    /\ summary # << >>
          => /\ flags.Profile # << >> => summary[1].Profile = flags.Profile
             /\ RegionGiven => summary[1].Region = flags.Region
             /\ flags.Cluster # << >> => summary[1].Cluster = flags.Cluster

\* --region eu-west-1 without --profile: the summary of a complete run shows
\* the region of the selected profile instead
C12_Witness ==
    /\ flags.Region = <<"eu-west-1">>
    /\ flags.Profile = << >>
    /\ pc = "Exited"
    /\ exitCode = 0
    /\ summary # << >>
    /\ summary[1].Region # flags.Region
    /\ \E i \in 1..Len(calls) :
          /\ calls[i].cmd = "aws eks update-kubeconfig"
          /\ calls[i].args[1] # flags.Region

LastCall == calls[Len(calls)]

\* C13: the session check never leaves an error and never ends the run.
\* After a failed identity call the run is at the login step, which either
\* starts `aws sso login` or, with --skip-sso, goes on to the cluster; a run
\* whose identity call failed ends with a non-zero status only after the
\* login step was passed.
C13_SessionCheckNeverFails ==
    /\ [][(pc = "CheckSSOSession")
            => /\ err' = Nil
               /\ Len(calls') = Len(calls) + 1
               /\ calls'[Len(calls')].cmd = "aws sts get-caller-identity"
               /\ (~calls'[Len(calls')].ok => pc' = "LoginSSO")
               /\ (calls'[Len(calls')].ok
                     => pc' \in {"ListEKSClusters", "UpdateKubeconfig"})]_vars
    /\ [][(pc = "LoginSSO" /\ config.SkipSSO)
            => /\ err' = Nil
               /\ calls' = calls
               /\ pc' \in {"ListEKSClusters", "UpdateKubeconfig"}]_vars
    /\ [][(pc = "LoginSSO" /\ ~config.SkipSSO)
            => /\ Len(calls') = Len(calls) + 1
               /\ calls'[Len(calls')].cmd = "aws sso login"]_vars
    /\ [](calls # << >> /\ LastCall.cmd = "aws sts get-caller-identity"
            => err = Nil /\ exitCode = -1)
    /\ [](Failed("aws sts get-caller-identity") /\ err # Nil
            => Ran("aws sso login") \/ config.SkipSSO)

\* the identity call failed, and the run stands at the login step unharmed
C13_Witness ==
    /\ pc = "LoginSSO"
    /\ Failed("aws sts get-caller-identity")
    /\ err = Nil
    /\ exitCode = -1

Times(cmd) == Cardinality({i \in 1..Len(calls) : calls[i].cmd = cmd})

OnceCmds ==
    {"aws configure list-profiles", "aws sts get-caller-identity",
     "aws sso login", "aws eks list-clusters", "aws eks update-kubeconfig",
     "kubectl cluster-info", "kubectl config current-context"}

\* C14: in one run the profile listing, the session check, the login, the
\* cluster listing, the config update, the connectivity check and the
\* current-context call are each started at most once, whether they failed
\* or not, and every region lookup is for one more listed profile.  Only the
\* prompts of the selection loops are repeated.
C14_NoSubprocessRetry ==
    /\ \A cmd \in OnceCmds : Times(cmd) <= 1
    /\ \A i \in 1..Len(calls) : calls[i].cmd \in OnceCmds
    /\ pc \in {"GetRegion", "SelectProfile", "ReadProfile", "ChooseProfile"}
          => lookups = Len(profiles)
    /\ pc = "AppendProfile" => lookups = Len(profiles) + 1
    /\ prompts.profile > 0 => Times("aws configure list-profiles") = 1
    /\ prompts.cluster > 0 => Times("aws eks list-clusters") = 1

\* a complete run that asked for the profile three times and for the cluster
\* twice, after a failed session check and a login, with every call made once
C14_Witness ==
    /\ pc = "Exited"
    /\ exitCode = 0
    /\ prompts.profile = 3
    /\ prompts.cluster = 2
    /\ Failed("aws sts get-caller-identity")
    /\ Succeeded("aws sso login")
    /\ Failed("kubectl cluster-info")
    /\ \A cmd \in OnceCmds \ {"kubectl config current-context"} : Times(cmd) = 1

\* a line without its white space
NameOf(line) == SelectSeq(line, LAMBDA t : t \notin WhiteSpace)

\* the names on the lines of a listing, in order, blank lines left out
RECURSIVE NamesListed(_)
NamesListed(ls) ==
    IF ls = << >> THEN << >>
    ELSE (IF NameOf(Head(ls)) = << >> THEN << >> ELSE <<NameOf(Head(ls))>>)
         \o NamesListed(Tail(ls))

NamesOf(ps) == [i \in 1..Len(ps) |-> ps[i].Name]

\* C15: while and after the listing is walked, the profiles found so far
\* followed by the names still to come are the non-blank lines of the
\* listing, in its order, so that the profiles handed to the selection are
\* exactly those lines; no profile has an empty name.  The region of each
\* profile is what its region lookup printed when the lookup succeeded with
\* a non-empty value and "us-west-2" otherwise, whatever --region says.
C15_ProfilesAndRegions ==
    /\ [](pc \in {"GetRegion", "AppendProfile", "SelectProfile"}
            => \A ls \in SeqsUpTo(ProfileLines, MaxLines) :
                  output = TrimSpace(JoinLines(ls))
                      => NamesOf(profiles) \o NamesListed(lines) = NamesListed(ls))
    /\ [](pc = "SelectProfile" => lines = << >>)
    /\ [](\A i \in 1..Len(profiles) :
              /\ profiles[i].Name # << >>
              /\ profiles[i].Region \in {<<"us-west-2">>, <<"us-east-1">>})
    /\ [][(pc = "AppendProfile")
            => /\ Len(profiles') = Len(profiles) + 1
               /\ SubSeq(profiles', 1, Len(profiles)) = profiles
               /\ profiles'[Len(profiles')].Region =
                     IF region.err \/ region.out = << >>
                     THEN <<"us-west-2">> ELSE region.out]_vars
    /\ [][(pc = "GetRegion")
            => \E r \in RegionResults :
                  /\ region'.err = ~r.ok
                  /\ region'.out = IF r.ok THEN NameOf(r.out) ELSE << >>]_vars

\* --region eu-west-1; the listing "dev", blank, " prod" gave dev and prod,
\* dev with the default region after a failed lookup, prod with its own
C15_Witness ==
    /\ flags.Region = <<"eu-west-1">>
    /\ pc = "SelectProfile"
    /\ output = <<"dev", "\n", "\n", " ", "prod">>
    /\ profiles = <<[Name |-> <<"dev">>, Region |-> <<"us-west-2">>],
                    [Name |-> <<"prod">>, Region |-> <<"us-east-1">>]>>

\* C16: `kubectl config current-context` is called only right after a
\* `kubectl cluster-info` that succeeded, and never in a run whose
\* cluster-info failed.  A failed current-context call leaves no error: the
\* run prints the summary and the process ends with exit status 0.
C16_CurrentContextIsOptional ==
    /\ [](\A i \in 1..Len(calls) :
              calls[i].cmd = "kubectl config current-context"
                  => /\ i > 1
                     /\ calls[i - 1].cmd = "kubectl cluster-info"
                     /\ calls[i - 1].ok
                     /\ i = Len(calls))
    /\ [](Failed("kubectl cluster-info") => ~Ran("kubectl config current-context"))
    /\ [][(pc = "VerifyConnection" /\ pc' = "CurrentContext")
            => (calls'[Len(calls')].cmd = "kubectl cluster-info"
                /\ calls'[Len(calls')].ok)]_vars
    /\ [][(pc = "CurrentContext")
            => /\ pc' = "ShowSummary"
               /\ err' = Nil
               /\ UNCHANGED <<config, visited>>]_vars
    /\ [](Failed("kubectl config current-context")
            => /\ err = Nil
               /\ pc \in {"ShowSummary", "Return", "Exited"}
               /\ (pc # "ShowSummary" => summary # << >>)
               /\ (pc = "Exited" => exitCode = 0))
    /\ (Failed("kubectl config current-context")
            ~> (pc = "Exited" /\ exitCode = 0 /\ summary # << >>))

\* cluster-info succeeded, current-context failed, and the run ended well
C16_Witness ==
    /\ Succeeded("kubectl cluster-info")
    /\ Failed("kubectl config current-context")
    /\ summary # << >>
    /\ pc = "Exited"
    /\ exitCode = 0

\* C17: a step that reads standard input at a prompt either hands a line
\* that was read to the choice, or, when the read failed, leaves the error
\* "failed to read input" and ends the step of Run without another prompt,
\* call or assignment.  After a failed read at the profile prompt profile,
\* region and cluster are what the flags said and the profile listing was
\* the last subprocess; after one at the cluster prompt the cluster is still
\* empty and the cluster listing was the last subprocess.  The process ends
\* with exit status 1.
C17_ReadFailureIsFatal ==
    /\ [][(pc \in {"ReadProfile", "ReadCluster"})
            => \/ /\ input' \in {r \in ReadResults : ~r.err}
                  /\ pc' = (IF pc = "ReadProfile"
                            THEN "ChooseProfile" ELSE "ChooseCluster")
                  /\ err' = Nil
               \/ /\ err' = ErrReadInput
                  /\ pc' = "Return"
                  /\ input' = NoInput
                  /\ UNCHANGED <<config, prompts, calls, lookups, visited>>]_vars
    /\ [](input = NoInput \/ ~input.err)
    /\ [](err = ErrReadInput
            => /\ pc \in {"Return", "Exited"}
               /\ (pc = "Exited" => exitCode = 1)
               /\ summary = << >>
               /\ prompts.profile + prompts.cluster > 0
               /\ ~Ran("aws eks update-kubeconfig"))
    /\ [](err = ErrReadInput /\ prompts.cluster = 0
            => /\ config.Profile = << >>
               /\ config.Region = flags.Region
               /\ config.Cluster = flags.Cluster
               /\ calls = <<Call("aws configure list-profiles", << >>, TRUE)>>)
    /\ [](err = ErrReadInput /\ prompts.cluster > 0
            => /\ config.Cluster = << >>
               /\ LastCall.cmd = "aws eks list-clusters"
               /\ LastCall.ok)
    /\ [][(err = ErrReadInput)
            => UNCHANGED <<config, prompts, calls, lookups, input, summary>>]_vars
    /\ (err = ErrReadInput ~> (pc = "Exited" /\ exitCode = 1))

\* the cluster prompt was repeated once after an invalid line, then the read
\* failed: no cluster, no config update, exit status 1
C17_Witness ==
    /\ err = ErrReadInput
    /\ prompts.cluster = 2
    /\ config.Cluster = << >>
    /\ LastCall.cmd = "aws eks list-clusters"
    /\ pc = "Exited"
    /\ exitCode = 1

\* the state of a run started with the other value of --interactive, in the
\* order of vars
Flipped ==
    <<path, [flags EXCEPT !.Interactive = ~@],
      [config EXCEPT !.Interactive = ~@], pc, lines, profiles, region, output,
      clusters, input, prompts, calls, lookups, err, summary, exitCode,
      visited>>

ToFlipped ==
    /\ path' = path
    /\ flags' = [flags EXCEPT !.Interactive = ~@]
    /\ config' = [config EXCEPT !.Interactive = ~@]
    /\ UNCHANGED <<pc, lines, profiles, region, output, clusters, input,
                   prompts, calls, lookups, err, summary, exitCode, visited>>

StateIs(t) ==
    /\ path' = t[1] /\ flags' = t[2] /\ config' = t[3] /\ pc' = t[4]
    /\ lines' = t[5] /\ profiles' = t[6] /\ region' = t[7] /\ output' = t[8]
    /\ clusters' = t[9] /\ input' = t[10] /\ prompts' = t[11]
    /\ calls' = t[12] /\ lookups' = t[13] /\ err' = t[14]
    /\ summary' = t[15] /\ exitCode' = t[16] /\ visited' = t[17]

\* the step just taken can also be taken, with the same result, by the run
\* that differs only in --interactive
SameStepWhenFlipped ==
    \A t \in {Flipped'} :
        ENABLED (ToFlipped /\ (ENABLED (StateIs(t) /\ Next))')

\* the number a line types, if it is one of 1..n (0: none)
ChoiceOf(line, n) ==
    IF \E k \in 1..n : line \in LinesFor(k)
    THEN CHOOSE k \in 1..n : line \in LinesFor(k)
    ELSE 0

NeedsProfile ==
    {"aws sts get-caller-identity", "aws sso login", "aws eks list-clusters",
     "aws eks update-kubeconfig"}

\* the --profile argument of a call
ProfileArg(c) ==
    IF c.cmd = "aws eks update-kubeconfig" THEN c.args[3] ELSE c.args[1]

\* C19: the session check, the login, the cluster listing and the config
\* update are called with the profile of the configuration, which is not
\* empty from the session check on.  The cluster the config update is
\* called with is the one given by --cluster or, when none was given, an
\* entry of the list the cluster listing of this run returned, picked in the
\* cluster selection and not changed afterwards; it is empty only if that
\* entry of the list is the empty string.
C19_CallsHaveProfileAndCluster ==
    /\ [](\A i \in 1..Len(calls) :
              calls[i].cmd \in NeedsProfile
                  => /\ ProfileArg(calls[i]) # << >>
                     /\ ProfileArg(calls[i]) = config.Profile)
    /\ [](pc \in {"CheckSSOSession", "LoginSSO", "ListEKSClusters",
                  "ParseClusters", "SelectCluster", "ReadCluster",
                  "ChooseCluster", "UpdateKubeconfig"}
            => config.Profile # << >>)
    /\ [](config.Profile # << >> /\ flags.Profile = << >>
            => Succeeded("aws configure list-profiles") /\ lookups > 0)
    /\ [][(pc = "ParseClusters" /\ err' = Nil)
            => /\ Succeeded("aws eks list-clusters")
               /\ \A cs \in SeqsUpTo(ClusterNames, MaxClusters) \cup UnnamedClusters :
                     output = TrimSpace(ClusterJSON(cs)) => clusters' = cs]_vars
    /\ [][(config'.Cluster # config.Cluster)
            => /\ pc \in {"SelectCluster", "ChooseCluster"}
               /\ flags.Cluster = << >>
               /\ config.Cluster = << >>
               /\ \E k \in 1..Len(clusters) : config'.Cluster = clusters[k]
               /\ pc' = "UpdateKubeconfig"]_vars
    /\ [][(pc \in {"SelectCluster", "ChooseCluster"} /\ pc' = "UpdateKubeconfig")
            => /\ \E k \in 1..Len(clusters) : config'.Cluster = clusters[k]
               /\ ((\A k \in 1..Len(clusters) : clusters[k] # << >>)
                     => config'.Cluster # << >>)]_vars
    /\ [](pc = "UpdateKubeconfig"
            => /\ (flags.Cluster # << >> => config.Cluster = flags.Cluster)
               /\ (flags.Cluster = << >> => Succeeded("aws eks list-clusters")))
    /\ [](\A i \in 1..Len(calls) :
              calls[i].cmd = "aws eks update-kubeconfig"
                  => /\ calls[i].args[2] = config.Cluster
                     /\ (flags.Cluster # << >> => calls[i].args[2] = flags.Cluster)
                     /\ (flags.Cluster = << >>
                           => Succeeded("aws eks list-clusters")))

\* nothing given on the command line: profile prod and cluster stg were
\* selected at the prompts and handed to the config update
C19_Witness ==
    /\ flags.Profile = << >>
    /\ flags.Cluster = << >>
    /\ prompts.profile > 0
    /\ prompts.cluster > 0
    /\ calls # << >>
    /\ LastCall.cmd = "aws eks update-kubeconfig"
    /\ LastCall.args[2] = <<"stg">>
    /\ LastCall.args[3] = <<"prod">>
    /\ Ran("aws sso login")

====
